---- MODULE Spec2Model ----
(***************************************************************************)
(* The movie-development workflow of LGtest.py: a LangGraph StateGraph     *)
(* over MovieState with eight nodes, a linear chain of edges, a            *)
(* conditional edge out of handle_user_feedback decided by route_feedback, *)
(* and an interrupt before handle_user_feedback.                           *)
(*                                                                         *)
(* Strings that the code inspects (the feedback texts) are sequences of    *)
(* one-character strings, so that str.lower() and the `in` substring test  *)
(* are computed.  The model call (llm.invoke) is a black box: it returns   *)
(* any value of Vals or raises.                                            *)
(*                                                                         *)
(* The three other scripts of the repository are independent programs and  *)
(* have a specification each: SelfieAuth of FaceRecog.py (SelfieSpec), the *)
(* halving of FRT2.py and FRT3.py (ResizeSpec) and the storage-triggered   *)
(* thumbnail function of FRT3.py (ThumbSpec).  Each specification leaves   *)
(* the variables of the other programs at rest.                            *)
(***************************************************************************)
EXTENDS Integers, Sequences, FiniteSets, TLC

VARIABLES
    state,      \* the MovieState channels (a record, one field per key)
    pc,         \* the node the engine runs next, or END
    status,     \* "running", "interrupted", "done" or "failed"
    start,      \* the node at which the current pass through the graph began
    executed,   \* the nodes executed since the caller's last invoke, in order
    injected,   \* the feedback strings the caller has injected, in order
    resumed,    \* TRUE once the caller has re-invoked the engine
    \* FaceRecog.py
    auth_image, \* the face encodings found in the first image, in order
    new_image,  \* the face encodings found in the second image, in order
    ret,        \* what SelfieAuth returned: a Python value (type, items)
    \* FRT2.py, FRT3.py: the halving
    img_shape,  \* the decoded image's shape, <<height, width>>
    frt2_dim,   \* the dsize reformat_image asks cv2.resize for, <<w, h>>
    frt3_dsize, \* the dsize resize asks cv2.resize for, <<w, h>>
    \* FRT3.py: the thumbnail function
    blobs,      \* the objects in storage, as <<bucket, name>>
    events,     \* the storage events not yet delivered to main
    uploads,    \* how many objects the users have uploaded
    last        \* the last delivery: the event, its outcome, the upload made

lgvars == <<state, pc, status, start, executed, injected, resumed>>
selfievars == <<auth_image, new_image, ret>>
resizevars == <<img_shape, frt2_dim, frt3_dsize>>
thumbvars == <<blobs, events, uploads, last>>

vars == <<state, pc, status, start, executed, injected, resumed,
          auth_image, new_image, ret, img_shape, frt2_dim, frt3_dsize,
          blobs, events, uploads, last>>

----------------------------------------------------------------------------
(* Bounds and input sets *)

\* The caller injects at most this many feedback strings.
MaxFeedback == 2

\* What a model call can return.
Vals == {"a", "b"}

\* The initial concepts.
Concepts == {"chef", "heist"}

None == "None"
END == "END"

----------------------------------------------------------------------------
(* Strings *)

UpperAlpha == <<"A","B","C","D","E","F","G","H","I","J","K","L","M",
                "N","O","P","Q","R","S","T","U","V","W","X","Y","Z">>
LowerAlpha == <<"a","b","c","d","e","f","g","h","i","j","k","l","m",
                "n","o","p","q","r","s","t","u","v","w","x","y","z">>

\* the lower-case letter of each upper-case letter
LowerOf ==
    [c \in {UpperAlpha[i] : i \in 1..26} |->
        LowerAlpha[CHOOSE i \in 1..26 : UpperAlpha[i] = c]]

\* str.lower() on one character: only upper-case letters change
LowerChar(c) == IF c \in DOMAIN LowerOf THEN LowerOf[c] ELSE c

\* str.lower()
Lower(s) == [i \in 1..Len(s) |-> LowerChar(s[i])]

\* the substring test `sub in s`
Contains(sub, s) ==
    \E i \in 1..(Len(s) - Len(sub) + 1) : SubSeq(s, i, i + Len(sub) - 1) = sub

kw_plot == <<"p","l","o","t">>
kw_character == <<"c","h","a","r","a","c","t","e","r">>
kw_theme == <<"t","h","e","m","e">>
kw_screenplay == <<"s","c","r","e","e","n","p","l","a","y">>

\* The feedback strings the caller may inject.
txt_theme_PLOT == kw_theme \o <<" ">> \o <<"P","L","O","T">>
txt_Characters == <<"C">> \o Tail(kw_character) \o <<"s">>
txt_screenplay_theme == kw_screenplay \o <<" ">> \o kw_theme
txt_Screenplay == <<"S">> \o Tail(kw_screenplay)
txt_screenplay == kw_screenplay
txt_ok == <<"o","k">>

Texts == {txt_theme_PLOT, txt_Characters, txt_screenplay_theme,
          txt_Screenplay, txt_screenplay, txt_ok}

----------------------------------------------------------------------------
(* The graph *)

Nodes == {"develop_plot", "create_characters", "develop_theme",
          "write_screenplay", "director_review", "critic_review",
          "market_analysis", "handle_user_feedback"}

\* the chain with the edge into market_analysis left out
Edge_skip_market(n) ==
    CASE n = "develop_plot" -> "create_characters"
      [] n = "create_characters" -> "develop_theme"
      [] n = "develop_theme" -> "write_screenplay"
      [] n = "write_screenplay" -> "director_review"
      [] n = "director_review" -> "critic_review"
      [] n = "critic_review" -> "handle_user_feedback"
      [] n = "market_analysis" -> "handle_user_feedback"

\* the chain with develop_theme bypassed
Edge_skip_theme(n) ==
    CASE n = "develop_plot" -> "create_characters"
      [] n = "create_characters" -> "write_screenplay"
      [] n = "develop_theme" -> "write_screenplay"
      [] n = "write_screenplay" -> "director_review"
      [] n = "director_review" -> "critic_review"
      [] n = "critic_review" -> "market_analysis"
      [] n = "market_analysis" -> "handle_user_feedback"

\* workflow.add_edge(a, b): the chain out of every node but the last
Edge(n) ==
    CASE n = "develop_plot" -> "create_characters"
      [] n = "create_characters" -> "develop_theme"
      [] n = "develop_theme" -> "write_screenplay"
      [] n = "write_screenplay" -> "director_review"
      [] n = "director_review" -> "critic_review"
      [] n = "critic_review" -> "market_analysis"
      [] n = "market_analysis" -> "handle_user_feedback"

\* the run entered at the second step
EntryPoint_characters == "create_characters"

\* workflow.add_edge(START, "develop_plot")
EntryPoint == "develop_plot"

\* compiled without an interrupt
interrupt_none == {}

\* workflow.compile(interrupt_before=[...])
interrupt_before == {"handle_user_feedback"}

\* any keyword restarts the run from the top
route_feedback_restart(s) ==
    LET feedback == s.user_feedback IN
    IF feedback = <<>> THEN END
    ELSE LET latest_feedback == Lower(feedback[Len(feedback)]) IN
         IF \/ Contains(kw_plot, latest_feedback)
            \/ Contains(kw_character, latest_feedback)
            \/ Contains(kw_theme, latest_feedback)
            \/ Contains(kw_screenplay, latest_feedback)
         THEN "develop_plot"
         ELSE END

\* the theme test placed before the plot test
route_feedback_theme_first(s) ==
    LET feedback == s.user_feedback IN
    IF feedback = <<>> THEN END
    ELSE LET latest_feedback == Lower(feedback[Len(feedback)]) IN
         IF Contains(kw_theme, latest_feedback) THEN "develop_theme"
         ELSE IF Contains(kw_plot, latest_feedback) THEN "develop_plot"
         ELSE IF Contains(kw_character, latest_feedback) THEN "create_characters"
         ELSE IF Contains(kw_screenplay, latest_feedback) THEN "write_screenplay"
         ELSE END

\* every entry of the list searched, not only the last
route_feedback_any_entry(s) ==
    LET feedback == s.user_feedback
        AnyHas(kw) == \E i \in 1..Len(feedback) : Contains(kw, Lower(feedback[i]))
    IN
    IF feedback = <<>> THEN END
    ELSE IF AnyHas(kw_plot) THEN "develop_plot"
    ELSE IF AnyHas(kw_character) THEN "create_characters"
    ELSE IF AnyHas(kw_theme) THEN "develop_theme"
    ELSE IF AnyHas(kw_screenplay) THEN "write_screenplay"
    ELSE END

\* unrecognised feedback starts over instead of ending the run
route_feedback_else_plot(s) ==
    LET feedback == s.user_feedback IN
    IF feedback = <<>> THEN END
    ELSE LET latest_feedback == Lower(feedback[Len(feedback)]) IN
         IF Contains(kw_plot, latest_feedback) THEN "develop_plot"
         ELSE IF Contains(kw_character, latest_feedback) THEN "create_characters"
         ELSE IF Contains(kw_theme, latest_feedback) THEN "develop_theme"
         ELSE IF Contains(kw_screenplay, latest_feedback) THEN "write_screenplay"
         ELSE "develop_plot"

\* route_feedback: the conditional edge out of handle_user_feedback
route_feedback(s) ==
    LET feedback == s.user_feedback IN
    IF feedback = <<>> THEN END
    ELSE LET latest_feedback == Lower(feedback[Len(feedback)]) IN
         IF Contains(kw_plot, latest_feedback) THEN "develop_plot"
         ELSE IF Contains(kw_character, latest_feedback) THEN "create_characters"
         ELSE IF Contains(kw_theme, latest_feedback) THEN "develop_theme"
         ELSE IF Contains(kw_screenplay, latest_feedback) THEN "write_screenplay"
         ELSE END

----------------------------------------------------------------------------
(* The state channels and their merge *)

\* MovieState before any node has written: only the input key is set.
InitialState(c) ==
    [concept |-> c, plot |-> None, characters |-> None, theme |-> None,
     screenplay |-> None, market_analysis |-> None,
     director_notes |-> <<>>, critic_feedback |-> <<>>, user_feedback |-> <<>>]

\* the update replaces the list
operator_replace(old, new) == new

\* Annotated[list, operator.add]: the channel's reducer
operator_add(old, new) == old \o new

\* a key with no reducer is a last-value channel: the update replaces it
LastValue(old, new) == new

\* the reducer of each key of MovieState
Reduce(key, old, new) ==
    IF key = "user_feedback" THEN operator_add(old, new) ELSE LastValue(old, new)

\* merging a node's partial update into the state
Merge(s, upd) ==
    [key \in DOMAIN s |->
        IF key \in DOMAIN upd THEN Reduce(key, s[key], upd[key]) ELSE s[key]]

----------------------------------------------------------------------------
(* The node functions: the partial update each returns, given the model's  *)
(* response out.                                                           *)

\* a new plot discards what was built on the old one
develop_plot_reset(s, out) == [plot |-> out, characters |-> None, theme |-> None]

develop_plot(s, out) == [plot |-> out]
create_characters(s, out) == [characters |-> out]
develop_theme(s, out) == [theme |-> out]
write_screenplay(s, out) == [screenplay |-> out]
director_review(s, out) == [director_notes |-> <<out>>]
critic_review(s, out) == [critic_feedback |-> <<out>>]
market_analysis(s, out) == [market_analysis |-> out]
\* `pass`: returns None, no update
handle_user_feedback(s) == <<>>

NodeUpdate(n, s, out) ==
    CASE n = "develop_plot" -> develop_plot(s, out)
      [] n = "create_characters" -> create_characters(s, out)
      [] n = "develop_theme" -> develop_theme(s, out)
      [] n = "write_screenplay" -> write_screenplay(s, out)
      [] n = "director_review" -> director_review(s, out)
      [] n = "critic_review" -> critic_review(s, out)
      [] n = "market_analysis" -> market_analysis(s, out)

\* the keys each node subscripts to build its prompt
Requires(n) ==
    CASE n = "develop_plot" -> {"concept"}
      [] n = "create_characters" -> {"plot"}
      [] n = "develop_theme" -> {"plot", "characters"}
      [] n = "write_screenplay" -> {"plot", "characters", "theme"}
      [] n = "director_review" -> {"screenplay"}
      [] n = "critic_review" -> {"plot", "theme", "screenplay"}
      [] n = "market_analysis" -> {"plot", "theme", "critic_feedback"}
      [] n = "handle_user_feedback" -> {}

\* a key is populated when some node (or the input) has written it
ListKeys == {"director_notes", "critic_feedback", "user_feedback"}
Populated(s, key) == IF key \in ListKeys THEN s[key] # <<>> ELSE s[key] # None

\* building the prompt succeeds: every subscripted key holds an object
PromptOK(n, s) == \A key \in Requires(n) : Populated(s, key)

----------------------------------------------------------------------------
(* The programs at rest *)

\* SelfieAuth not called
NotReturned == [type |-> "none", items |-> <<>>]

SelfieIdle == auth_image = <<>> /\ new_image = <<>> /\ ret = NotReturned

\* no image decoded
ResizeIdle == img_shape = <<0, 0>> /\ frt2_dim = <<>> /\ frt3_dsize = <<>>

\* no delivery made
NoDelivery ==
    [event |-> [bucket |-> "none", name |-> <<>>, by |-> "none"],
     outcome |-> "none", uploaded |-> <<>>]

\* empty storage, nothing uploaded
ThumbIdle == blobs = {} /\ events = <<>> /\ uploads = 0 /\ last = NoDelivery

\* the workflow not started
WorkflowIdle ==
    /\ state = InitialState("chef")
    /\ pc = END
    /\ status = "done"
    /\ start = "develop_plot"
    /\ executed = <<>>
    /\ injected = <<>>
    /\ resumed = FALSE

----------------------------------------------------------------------------
(* The engine *)

Init ==
    /\ \E c \in Concepts : state = InitialState(c)
    /\ pc = EntryPoint
    /\ status = "running"
    /\ start = EntryPoint
    /\ executed = <<>>
    /\ injected = <<>>
    /\ resumed = FALSE
    /\ SelfieIdle
    /\ ResizeIdle
    /\ ThumbIdle

\* after node n: follow its edge; stop before a node of interrupt_before
Advance(n) ==
    /\ pc' = Edge(n)
    /\ status' = IF Edge(n) \in interrupt_before THEN "interrupted" ELSE "running"

\* A node other than handle_user_feedback runs: the model call returns out
\* and the node's update is merged.
RunNode(n) ==
    /\ status = "running"
    /\ pc = n
    /\ n # "handle_user_feedback"
    /\ PromptOK(n, state)
    /\ \E out \in Vals : state' = Merge(state, NodeUpdate(n, state, out))
    /\ Advance(n)
    /\ executed' = Append(executed, n)
    /\ UNCHANGED <<start, injected, resumed>>
    /\ UNCHANGED <<selfievars, resizevars, thumbvars>>

\* the update is merged before the exception leaves the node
Propagate_partial(n, s) ==
    [status |-> "failed", state |-> Merge(s, NodeUpdate(n, s, "a"))]

\* what an exception inside a node leaves behind: nothing is caught, the
\* run is over and the node's update never reaches the state
Propagate(n, s) == [status |-> "failed", state |-> s]

\* The model call (or the prompt construction) inside node n raises.
NodeRaises(n) ==
    /\ status = "running"
    /\ pc = n
    /\ n # "handle_user_feedback"
    /\ status' = Propagate(n, state).status
    /\ state' = Propagate(n, state).state
    /\ executed' = Append(executed, n)
    /\ UNCHANGED <<pc, start, injected, resumed>>
    /\ UNCHANGED <<selfievars, resizevars, thumbvars>>

\* handle_user_feedback runs (no update) and the conditional edge is taken.
RunFeedbackNode ==
    /\ status = "running"
    /\ pc = "handle_user_feedback"
    /\ state' = Merge(state, handle_user_feedback(state))
    /\ LET target == route_feedback(state') IN
        /\ pc' = target
        /\ status' = IF target = END THEN "done" ELSE "running"
        /\ start' = IF target = END THEN start ELSE target
    /\ executed' = Append(executed, "handle_user_feedback")
    /\ UNCHANGED <<injected, resumed>>
    /\ UNCHANGED <<selfievars, resizevars, thumbvars>>

\* The caller appends one feedback string and re-invokes the engine.
Resume(text) ==
    /\ status = "interrupted"
    /\ Len(injected) < MaxFeedback
    /\ state' = Merge(state, [user_feedback |-> <<text>>])
    /\ injected' = Append(injected, text)
    /\ status' = "running"
    /\ executed' = <<>>
    /\ resumed' = TRUE
    /\ UNCHANGED <<pc, start>>
    /\ UNCHANGED <<selfievars, resizevars, thumbvars>>

\* The caller re-invokes the engine without injecting anything.
ResumeNoFeedback ==
    /\ status = "interrupted"
    /\ status' = "running"
    /\ executed' = <<>>
    /\ resumed' = TRUE
    /\ UNCHANGED <<state, pc, start, injected>>
    /\ UNCHANGED <<selfievars, resizevars, thumbvars>>

EngineStep ==
    \/ \E n \in Nodes : RunNode(n)
    \/ \E n \in Nodes : NodeRaises(n)
    \/ RunFeedbackNode

Next ==
    \/ \E n \in Nodes : RunNode(n)
    \/ \E n \in Nodes : NodeRaises(n)
    \/ RunFeedbackNode
    \/ \E text \in Texts : Resume(text)
    \/ ResumeNoFeedback

Spec == Init /\ [][Next]_vars

\* The runs in which the caller never injects feedback.  The engine keeps
\* stepping while a run is in progress; the caller is free never to resume.
NextNoFeedback ==
    \/ \E n \in Nodes : RunNode(n)
    \/ \E n \in Nodes : NodeRaises(n)
    \/ RunFeedbackNode
    \/ ResumeNoFeedback

NoFeedbackSpec == Init /\ [][NextNoFeedback]_vars /\ WF_vars(EngineStep)

TypeOK ==
    /\ status \in {"running", "interrupted", "done", "failed"}
    /\ pc \in Nodes \cup {END}
    /\ start \in Nodes
    /\ resumed \in BOOLEAN

----------------------------------------------------------------------------
(* FaceRecog.py: SelfieAuth *)

\* An image can show at most this many faces.
MaxFaces == 2

\* The face encodings; two faces are judged the same person when their
\* encodings are equal.
Encodings == {"e1", "e2", "e3"}

\* The images, each as the list fr.face_encodings finds in it.
Images == UNION {[1..n -> Encodings] : n \in 0..MaxFaces}

\* fr.face_encodings(image): one encoding per detected face
face_encodings(image) == image

\* fr.compare_faces(known, candidate): one boolean per known encoding
compare_faces(known_face_encodings, face_encoding_to_check) ==
    [i \in 1..Len(known_face_encodings) |->
        known_face_encodings[i] = face_encoding_to_check]

\* the Python values SelfieAuth can return
PyBool(b) == [type |-> "bool", items |-> <<b>>]
PyList(l) == [type |-> "list", items |-> l]

\* SelfieAuth: indexing [0] raises IndexError on an image without a face,
\* which the except clause turns into False; otherwise the comparator's
\* return value is returned as it is
SelfieAuthResult(auth, new) ==
    IF face_encodings(auth) = <<>> \/ face_encodings(new) = <<>>
    THEN PyBool(FALSE)
    ELSE LET user_encoding == face_encodings(auth)[1]
             selfie_encoding == face_encodings(new)[1]
         IN PyList(compare_faces(<<user_encoding>>, selfie_encoding))

SelfieInit ==
    /\ auth_image \in Images
    /\ new_image \in Images
    /\ ret = NotReturned
    /\ WorkflowIdle
    /\ ResizeIdle
    /\ ThumbIdle

SelfieAuth ==
    /\ ret = NotReturned
    /\ ret' = SelfieAuthResult(auth_image, new_image)
    /\ UNCHANGED <<auth_image, new_image>>
    /\ UNCHANGED <<lgvars, resizevars, thumbvars>>

SelfieNext == SelfieAuth

SelfieSpec == SelfieInit /\ [][SelfieNext]_vars

----------------------------------------------------------------------------
(* FRT2.py and FRT3.py: the halving *)

\* Images are at most this wide and this high.
MaxDim == 9

\* the width and height rounded up instead of cut off
IntOfQuotient_up(a, b) == (a + b - 1) \div b

\* int(a / b): true division, then truncation toward zero
IntOfQuotient(a, b) == IF a >= 0 THEN a \div b ELSE -((-a) \div b)

\* FRT2.py: scale_percent
scale_percent == 50

\* FRT2.py reformat_image: dim = (width, height); shape is (height, width)
reformat_image_dim(shape) ==
    LET width == IntOfQuotient(shape[2] * scale_percent, 100)
        height == IntOfQuotient(shape[1] * scale_percent, 100)
    IN <<width, height>>

\* FRT3.py resize: the dsize passed to cv2.resize
resize_dsize(shape) ==
    LET height == shape[1]
        width == shape[2]
    IN <<IntOfQuotient(width, 2), IntOfQuotient(height, 2)>>

ResizeInit ==
    /\ img_shape \in (0..MaxDim) \X (0..MaxDim)
    /\ frt2_dim = <<>>
    /\ frt3_dsize = <<>>
    /\ WorkflowIdle
    /\ SelfieIdle
    /\ ThumbIdle

reformat_image ==
    /\ frt2_dim = <<>>
    /\ frt2_dim' = reformat_image_dim(img_shape)
    /\ UNCHANGED <<img_shape, frt3_dsize>>
    /\ UNCHANGED <<lgvars, selfievars, thumbvars>>

resize ==
    /\ frt3_dsize = <<>>
    /\ frt3_dsize' = resize_dsize(img_shape)
    /\ UNCHANGED <<img_shape, frt2_dim>>
    /\ UNCHANGED <<lgvars, selfievars, thumbvars>>

ResizeNext == reformat_image \/ resize

ResizeSpec == ResizeInit /\ [][ResizeNext]_vars

----------------------------------------------------------------------------
(* FRT3.py: the thumbnail function and the bucket that triggers it *)

\* The users upload at most this many objects.
MaxUploads == 2

\* The original uploads followed when the chain of events is traced.
MaxOriginals == 1

Buckets == {"photos", "scans"}

NEW_FILE_PREFIX == <<"t","h","u","m","b","n","a","i","l","_">>

\* The object names the users upload.
name_b == <<"b">>
name_a_b == <<"a","/","b">>
name_a__b == <<"a","/","/","b">>
name_root_b == <<"/","b">>
name_a_dir == <<"a","/">>
name_thumb_b == NEW_FILE_PREFIX \o <<"b">>
name_a_thumb_b == <<"a","/">> \o NEW_FILE_PREFIX \o <<"b">>
name_thumbdir_b == NEW_FILE_PREFIX \o <<"/","b">>

ObjectNames == {name_b, name_a_b, name_a__b, name_root_b, name_a_dir,
                name_thumb_b, name_a_thumb_b, name_thumbdir_b}

\* the index of the last "/" of p, 0 when there is none
LastSlash(p) ==
    LET at == {i \in 1..Len(p) : p[i] = "/"} IN
    IF at = {} THEN 0 ELSE CHOOSE i \in at : \A j \in at : j <= i

\* str.rstrip("/")
RStripSlash(p) ==
    LET keep == {i \in 1..Len(p) : p[i] # "/"} IN
    IF keep = {} THEN <<>>
    ELSE SubSeq(p, 1, CHOOSE i \in keep : \A j \in keep : j <= i)

\* os.path.split(p): <<head, tail>>; a head that is not all slashes loses
\* its trailing slashes
split(p) ==
    LET i == LastSlash(p)
        head == SubSeq(p, 1, i)
        tail == SubSeq(p, i + 1, Len(p))
    IN <<IF head # <<>> /\ RStripSlash(head) # <<>> THEN RStripSlash(head) ELSE head,
         tail>>

\* os.path.join(a, b)
join(a, b) ==
    IF b # <<>> /\ b[1] = "/" THEN b
    ELSE IF a = <<>> \/ a[Len(a)] = "/" THEN a \o b
    ELSE a \o <<"/">> \o b

\* str.startswith
startswith(str, prefix) ==
    Len(str) >= Len(prefix) /\ SubSeq(str, 1, Len(prefix)) = prefix

\* the guard applied to the whole object name
already_resized_whole_name(name) == startswith(name, NEW_FILE_PREFIX)

\* main's guard: the file name of the object starts with the prefix
already_resized(name) == startswith(split(name)[2], NEW_FILE_PREFIX)

\* the thumbnail written at the top of the bucket
new_file_name_flat(blob_name) == NEW_FILE_PREFIX \o split(blob_name)[2]

\* upload: the name of the new blob
new_file_name(blob_name) ==
    LET _dir == split(blob_name)[1]
        _name == split(blob_name)[2]
    IN join(_dir, NEW_FILE_PREFIX \o _name)

\* the sequence without its i-th element
Remove(seq, i) == SubSeq(seq, 1, i - 1) \o SubSeq(seq, i + 1, Len(seq))

\* What the bucket may hold before the function is deployed.
StoredBefore == {{}, {<<"photos", name_thumb_b>>}}

ThumbInit ==
    /\ blobs \in StoredBefore
    /\ events = <<>>
    /\ uploads = 0
    /\ last = NoDelivery
    /\ WorkflowIdle
    /\ SelfieIdle
    /\ ResizeIdle

\* A user writes an object; the bucket raises an event for it.
UserUpload(bucket, name) ==
    /\ blobs' = blobs \cup {<<bucket, name>>}
    /\ events' = Append(events, [bucket |-> bucket, name |-> name, by |-> "user"])
    /\ uploads' = uploads + 1
    /\ UNCHANGED last
    /\ UNCHANGED <<lgvars, selfievars, resizevars>>

\* main(event, context) runs to its end on the i-th pending event: it
\* returns at the guard, or downloads, resizes and uploads; the upload
\* raises an event of its own.
main(i) ==
    /\ i \in 1..Len(events)
    /\ \/ /\ already_resized(events[i].name)
          /\ blobs' = blobs
          /\ events' = Remove(events, i)
          /\ last' = [event |-> events[i], outcome |-> "skipped", uploaded |-> <<>>]
       \/ /\ ~already_resized(events[i].name)
          /\ \E new \in {new_file_name(events[i].name)} :
               /\ blobs' = blobs \cup {<<events[i].bucket, new>>}
               /\ events' = Append(Remove(events, i),
                                   [bucket |-> events[i].bucket, name |-> new,
                                    by |-> "script"])
               /\ last' = [event |-> events[i], outcome |-> "uploaded",
                           uploaded |-> <<events[i].bucket, new>>]
    /\ UNCHANGED uploads
    /\ UNCHANGED <<lgvars, selfievars, resizevars>>

\* main passes the guard and then download or resize raises (the object is
\* no image, or too small to halve): nothing is uploaded.
main_raises(i) ==
    /\ i \in 1..Len(events)
    /\ ~already_resized(events[i].name)
    /\ blobs' = blobs
    /\ events' = Remove(events, i)
    /\ last' = [event |-> events[i], outcome |-> "raised", uploaded |-> <<>>]
    /\ UNCHANGED uploads
    /\ UNCHANGED <<lgvars, selfievars, resizevars>>

\* the platform delivers a pending event
Deliver ==
    \/ \E i \in 1..Len(events) : main(i)
    \/ \E i \in 1..Len(events) : main_raises(i)

ThumbNext ==
    \/ \E bucket \in Buckets, name \in ObjectNames :
          uploads < MaxUploads /\ UserUpload(bucket, name)
    \/ \E i \in 1..Len(events) : main(i)
    \/ \E i \in 1..Len(events) : main_raises(i)

ThumbSpec == ThumbInit /\ [][ThumbNext]_vars

\* The chain of events behind the original uploads; every pending event is
\* delivered in the end.
RetriggerNext ==
    \/ \E bucket \in Buckets, name \in ObjectNames :
          uploads < MaxOriginals /\ UserUpload(bucket, name)
    \/ \E i \in 1..Len(events) : main(i)
    \/ \E i \in 1..Len(events) : main_raises(i)

RetriggerSpec == ThumbInit /\ [][RetriggerNext]_vars /\ WF_vars(Deliver)

----------------------------------------------------------------------------
(* Helpers for stating the properties *)

Chain7 == <<"develop_plot", "create_characters", "develop_theme",
            "write_screenplay", "director_review", "critic_review",
            "market_analysis">>

Index(n) == CHOOSE i \in 1..7 : Chain7[i] = n

\* the steps from n to market_analysis, in graph order
ChainFrom(n) == SubSeq(Chain7, Index(n), 7)

Last(seq) == seq[Len(seq)]

OptionalKeys == {"plot", "characters", "theme", "screenplay", "market_analysis"}

\* the key each of the seven steps writes
OwnKey(n) ==
    CASE n = "develop_plot" -> "plot"
      [] n = "create_characters" -> "characters"
      [] n = "develop_theme" -> "theme"
      [] n = "write_screenplay" -> "screenplay"
      [] n = "director_review" -> "director_notes"
      [] n = "critic_review" -> "critic_feedback"
      [] n = "market_analysis" -> "market_analysis"

\* the keys written by the steps before n
KeysBefore(n) == {OwnKey(Chain7[i]) : i \in 1..(Index(n) - 1)}

AllPopulated(s) ==
    /\ \A key \in OptionalKeys : s[key] \in Vals
    /\ Len(s.director_notes) = 1
    /\ Len(s.critic_feedback) = 1

----------------------------------------------------------------------------
\* C1: a run started from a concept alone, with no feedback injected, makes
\* exactly one pass through the seven steps (each once, in order) and then
\* returns, with plot, characters, theme, screenplay and market_analysis
\* populated and one entry in each of director_notes and critic_feedback;
\* re-invoked without feedback it ends there.  A run in which no model
\* call raises does return.
C1_Returned ==
    /\ (status = "interrupted" /\ ~resumed) =>
          /\ executed = Chain7
          /\ state.user_feedback = <<>>
          /\ AllPopulated(state)
    /\ (status = "done" /\ state.user_feedback = <<>>) =>
          /\ executed = <<"handle_user_feedback">>
          /\ pc = END
          /\ AllPopulated(state)

C1_OnePass == []C1_Returned /\ <>(status # "running")

C1_Witness ==
    /\ status = "done"
    /\ state.user_feedback = <<>>
    /\ state.concept = "heist"
    /\ AllPopulated(state)

----------------------------------------------------------------------------
\* C2: feedback containing "character" (and not "plot") restarts the run at
\* create_characters: develop_plot is not run again and plot keeps its
\* value, while create_characters .. market_analysis each run once more, in
\* order.  In general a resume routed to step k of 1..4 re-runs exactly
\* steps k..7 and leaves the keys written by the steps before k unchanged.
C2_Trace ==
    (status = "interrupted" /\ resumed) =>
        /\ executed = <<"handle_user_feedback">> \o ChainFrom(start)
        /\ Index(start) \in 1..4
        /\ (state.user_feedback # <<>> /\ Last(state.user_feedback) = txt_Characters)
              => start = "create_characters"

C2_Frame ==
    /\ (status = "interrupted" \/ pc = "handle_user_feedback") =>
          \A key \in OptionalKeys \cup {"director_notes", "critic_feedback"} :
              state'[key] = state[key]
    /\ (status = "running" /\ pc \in Nodes \ {"handle_user_feedback"}) =>
          \A key \in KeysBefore(start) : state'[key] = state[key]

C2_RestartAtStep == []C2_Trace /\ [][C2_Frame]_vars

C2_Witness ==
    /\ status = "interrupted"
    /\ resumed
    /\ Last(state.user_feedback) = txt_Characters
    /\ start = "create_characters"
    /\ executed = <<"handle_user_feedback">> \o SubSeq(Chain7, 2, 7)

----------------------------------------------------------------------------
\* C3: the router returns the target of the first keyword present in the
\* order plot > character > theme > screenplay, wherever the keywords stand
\* in the text; a text with both "plot" and "theme" goes to develop_plot.
Priority == <<kw_plot, kw_character, kw_theme, kw_screenplay>>

PriorityTarget(text) ==
    LET present == {i \in 1..4 : Contains(Priority[i], Lower(text))} IN
    IF present = {} THEN END
    ELSE Chain7[CHOOSE i \in present : \A j \in present : i <= j]

C3_Step ==
    (status = "running" /\ pc = "handle_user_feedback" /\ state.user_feedback # <<>>) =>
        /\ pc' = PriorityTarget(Last(state.user_feedback))
        /\ (/\ Contains(kw_plot, Lower(Last(state.user_feedback)))
            /\ Contains(kw_theme, Lower(Last(state.user_feedback))))
              => pc' = "develop_plot"

C3_RouterPrecedence == [][C3_Step]_vars

C3_Witness ==
    /\ status = "running"
    /\ resumed
    /\ executed = <<"handle_user_feedback">>
    /\ Last(state.user_feedback) = txt_theme_PLOT
    /\ pc = "develop_plot"

----------------------------------------------------------------------------
\* C4: user_feedback only grows: after N injections it holds exactly the N
\* injected strings, in injection order.
C4_AppendOnly == state.user_feedback = injected

C4_Witness ==
    /\ Len(injected) >= 2
    /\ injected[1] # injected[2]
    /\ status = "interrupted"
    /\ Len(state.user_feedback) = Len(injected)

----------------------------------------------------------------------------
\* C5: every execution of director_review (critic_review) appends exactly
\* one entry to the end of director_notes (critic_feedback) and leaves the
\* entries already there in place.
AppendsOne(key) ==
    /\ Len(state'[key]) = Len(state[key]) + 1
    /\ SubSeq(state'[key], 1, Len(state[key])) = state[key]

C5_Step ==
    /\ (status = "running" /\ pc = "director_review" /\ status' # "failed")
          => AppendsOne("director_notes")
    /\ (status = "running" /\ pc = "critic_review" /\ status' # "failed")
          => AppendsOne("critic_feedback")

C5_ReviewsAppend == [][C5_Step]_vars

----------------------------------------------------------------------------
\* C6: every pass stops before handle_user_feedback, right after
\* market_analysis; handle_user_feedback and the router run only once the
\* caller has re-invoked the engine, and then they run first, the router
\* deciding on the entry just injected.
C6_Paused ==
    /\ status = "interrupted" =>
          /\ pc = "handle_user_feedback"
          /\ executed # <<>>
          /\ Last(executed) = "market_analysis"
    /\ \A i \in 1..Len(executed) :
          executed[i] = "handle_user_feedback" => (i = 1 /\ resumed)
    /\ (resumed /\ executed # <<>>) => executed[1] = "handle_user_feedback"
    /\ (status = "running" /\ pc = "handle_user_feedback") =>
          (resumed /\ executed = <<>>)

C6_Step ==
    /\ status = "interrupted" =>
          (status' = "running" /\ pc' = "handle_user_feedback" /\ executed' = <<>>)
    /\ (status = "running" /\ pc = "handle_user_feedback" /\ injected # <<>>) =>
          pc' = route_feedback([user_feedback |-> <<Last(injected)>>])

C6_Interrupt == []C6_Paused /\ [][C6_Step]_vars

C6_Witness ==
    /\ status = "running"
    /\ resumed
    /\ executed = <<"handle_user_feedback">>
    /\ pc = "develop_theme"
    /\ Last(injected) = txt_screenplay_theme

----------------------------------------------------------------------------
\* C7: the route taken depends only on the last user_feedback entry, read
\* without regard to letter case: any other list whose last entry is the
\* same up to case routes the same way, and an earlier entry with "plot"
\* does not send the run to develop_plot when the last one has no keyword.
FeedbackLists == {<<t>> : t \in Texts} \cup {<<t, u>> : t \in Texts, u \in Texts}

HasKeyword(text) ==
    \E i \in 1..4 : Contains(Priority[i], Lower(text))

C7_Step ==
    (status = "running" /\ pc = "handle_user_feedback" /\ state.user_feedback # <<>>) =>
        /\ \A other \in FeedbackLists :
              Lower(Last(other)) = Lower(Last(state.user_feedback))
                  => route_feedback([user_feedback |-> other]) = pc'
        /\ ~HasKeyword(Last(state.user_feedback)) => pc' # "develop_plot"

C7_LastEntryOnly == [][C7_Step]_vars

C7_Witness ==
    /\ status = "done"
    /\ Len(state.user_feedback) = 2
    /\ state.user_feedback[1] = txt_theme_PLOT
    /\ state.user_feedback[2] = txt_ok

----------------------------------------------------------------------------
\* C8: when the router finds no feedback, or no keyword in the latest
\* entry (read without regard to case), the run ends: the router returns
\* END, the state stays as it was at the interrupt and nothing runs after.
C8_Step ==
    /\ (/\ status = "running"
        /\ pc = "handle_user_feedback"
        /\ (state.user_feedback = <<>> \/ ~HasKeyword(Last(state.user_feedback))))
          => (pc' = END /\ status' = "done" /\ state' = state)
    /\ status = "done" => UNCHANGED vars

C8_Terminates == [][C8_Step]_vars

C8_Witness ==
    /\ status = "done"
    /\ pc = END
    /\ state.user_feedback # <<>>
    /\ Last(state.user_feedback) = txt_ok
    /\ Last(executed) = "handle_user_feedback"

----------------------------------------------------------------------------
\* C9: a model call that raises is neither caught nor retried: no update of
\* the failing step reaches the state, the step has run once, and nothing
\* runs after it.
C9_Aborted ==
    status = "failed" =>
        /\ executed # <<>>
        /\ Last(executed) = pc
        /\ Cardinality({i \in 1..Len(executed) : executed[i] = pc}) = 1

C9_Step ==
    /\ (status # "failed" /\ status' = "failed") => state' = state
    /\ status = "failed" => UNCHANGED vars

C9_FailureAborts == []C9_Aborted /\ [][C9_Step]_vars

C9_Witness ==
    /\ status = "failed"
    /\ pc = "write_screenplay"
    /\ resumed
    /\ state.screenplay \in Vals
    /\ Last(executed) = "write_screenplay"

----------------------------------------------------------------------------
\* C10: concept never changes; plot, characters, theme, screenplay and
\* market_analysis are each written by their one step only, which replaces
\* the value whole; every step leaves the keys of the other steps alone and
\* handle_user_feedback changes nothing.
C10_Step ==
    /\ state'.concept = state.concept
    /\ \A key \in OptionalKeys :
          state'[key] # state[key] =>
              /\ status = "running"
              /\ pc \in Nodes \ {"handle_user_feedback"}
              /\ OwnKey(pc) = key
              /\ state'[key] \in Vals
    /\ (status = "running" /\ pc \in Nodes \ {"handle_user_feedback"}) =>
          \A key \in DOMAIN state : key # OwnKey(pc) => state'[key] = state[key]
    /\ (status = "running" /\ pc = "handle_user_feedback") => state' = state

C10_OwnFieldOnly == [][C10_Step]_vars

C10_Witness ==
    /\ status = "interrupted"
    /\ resumed
    /\ start = "develop_plot"
    /\ state.concept = "chef"
    /\ state.plot \in Vals
    /\ state.user_feedback # <<>>

----------------------------------------------------------------------------
\* C14: steps run one at a time and in graph order: the step after step i
\* is step i+1 along develop_plot .. market_analysis .. handle_user_feedback,
\* and the only other moves are the router's, out of handle_user_feedback to
\* one of the first four steps or to END.
Chain8 == Chain7 \o <<"handle_user_feedback">>

Successor(n) == Chain8[(CHOOSE i \in 1..7 : Chain8[i] = n) + 1]

C14_Trace ==
    \A i \in 1..(Len(executed) - 1) :
        IF executed[i] = "handle_user_feedback"
        THEN executed[i + 1] \in {Chain7[k] : k \in 1..4}
        ELSE executed[i + 1] = Successor(executed[i])

C14_Step ==
    /\ (status = "running" /\ pc # "handle_user_feedback" /\ status' # "failed")
          => pc' = Successor(pc)
    /\ (status = "running" /\ pc = "handle_user_feedback")
          => pc' \in {Chain7[k] : k \in 1..4} \cup {END}
    /\ status = "running" => executed' = Append(executed, pc)
    /\ status # "running" => (pc' = pc /\ executed' = <<>>)

C14_GraphOrder == []C14_Trace /\ [][C14_Step]_vars

C14_Witness ==
    /\ status = "interrupted"
    /\ resumed
    /\ start = "develop_theme"
    /\ executed = <<"handle_user_feedback">> \o SubSeq(Chain7, 3, 7)

----------------------------------------------------------------------------
\* C15: no step starts while a key it reads is unpopulated, on the first
\* pass and on every restart at steps 1..4.
IsSet(key) == state[key] \in Vals

C15_RequiredSet ==
    status = "running" =>
        /\ pc = "create_characters" => IsSet("plot")
        /\ pc = "develop_theme" => (IsSet("plot") /\ IsSet("characters"))
        /\ pc = "write_screenplay" =>
              (IsSet("plot") /\ IsSet("characters") /\ IsSet("theme"))
        /\ pc = "director_review" => IsSet("screenplay")
        /\ pc = "critic_review" =>
              (IsSet("plot") /\ IsSet("theme") /\ IsSet("screenplay"))
        /\ pc = "market_analysis" =>
              (IsSet("plot") /\ IsSet("theme") /\ state.critic_feedback # <<>>)

C15_Witness ==
    /\ status = "running"
    /\ resumed
    /\ pc = "write_screenplay"
    /\ start = "write_screenplay"
    /\ executed = <<"handle_user_feedback">>
    /\ IsSet("theme")

----------------------------------------------------------------------------
\* C11: SelfieAuth returns the boolean False when either image shows no
\* face, and otherwise a single boolean, the comparator's verdict on the
\* two encodings.
C11_ReturnsBoolean ==
    ret # NotReturned =>
        IF auth_image = <<>> \/ new_image = <<>>
        THEN ret = PyBool(FALSE)
        ELSE /\ ret.type = "bool"
             /\ ret.items = <<auth_image[1] = new_image[1]>>

----------------------------------------------------------------------------
\* C12: for an image W wide and H high both scripts ask for an output
\* floor(W/2) wide and floor(H/2) high; odd sizes lose the half pixel.
Floor2(x) == CHOOSE q \in 0..x : 2 * q <= x /\ x < 2 * (q + 1)

C12_Halved ==
    LET H == img_shape[1]
        W == img_shape[2]
    IN /\ frt2_dim # <<>> => frt2_dim = <<Floor2(W), Floor2(H)>>
       /\ frt3_dsize # <<>> => frt3_dsize = <<Floor2(W), Floor2(H)>>

C12_Witness ==
    /\ img_shape = <<3, 5>>
    /\ frt2_dim = <<2, 1>>
    /\ frt3_dsize = <<2, 1>>

----------------------------------------------------------------------------
(* Helpers for the thumbnail properties *)

\* the last path component of an object name: what follows its last "/"
LastComponent(p) ==
    CHOOSE t \in {SubSeq(p, k, Len(p)) : k \in 1..(Len(p) + 1)} :
        /\ \A i \in 1..Len(t) : t[i] # "/"
        /\ (Len(t) = Len(p) \/ p[Len(p) - Len(t)] = "/")

HasPrefix(filename) ==
    /\ Len(filename) >= Len(NEW_FILE_PREFIX)
    /\ \A i \in 1..Len(NEW_FILE_PREFIX) : filename[i] = NEW_FILE_PREFIX[i]

\* this step is a delivery of an event to main
Delivered == uploads' = uploads /\ events' # events

----------------------------------------------------------------------------
\* C13: an event for an object whose file name starts with thumbnail_ makes
\* main do nothing; for any other event a run of main that completes
\* uploads exactly one object, to the event's bucket, in the directory of
\* the source and named thumbnail_ + the source file name, and the source
\* object stays as it is.  (The directory of a name is the head os.path.split
\* gives it.)
C13_Step ==
    Delivered =>
        LET event == last'.event
            filename == LastComponent(event.name)
        IN IF HasPrefix(filename)
           THEN /\ last'.outcome = "skipped"
                /\ blobs' = blobs
                /\ Len(events') = Len(events) - 1
           ELSE /\ last'.outcome \in {"uploaded", "raised"}
                /\ last'.outcome = "raised" => blobs' = blobs
                /\ last'.outcome = "uploaded" =>
                      LET bucket == last'.uploaded[1]
                          new == last'.uploaded[2]
                      IN /\ bucket = event.bucket
                         /\ blobs' = blobs \cup {<<bucket, new>>}
                         /\ LastComponent(new) = NEW_FILE_PREFIX \o filename
                         /\ split(new)[1] = split(event.name)[1]
                         /\ new # event.name

C13_GuardAndName == [][C13_Step]_vars

C13_Witness ==
    /\ last.outcome = "uploaded"
    /\ last.event = [bucket |-> "scans", name |-> name_a_b, by |-> "user"]
    /\ last.uploaded = <<"scans", <<"a", "/">> \o NEW_FILE_PREFIX \o <<"b">>>>
    /\ <<"scans", name_a_b>> \in blobs
    /\ <<"scans", last.uploaded[2]>> \in blobs

----------------------------------------------------------------------------
\* C16: when every upload raises an event for main, an upload of an object
\* without the prefix leads to one thumbnail upload (when main completes),
\* the event of that thumbnail is skipped, no thumbnail of a thumbnail is
\* made, and the pending events run out.
C16_Step ==
    Delivered =>
        /\ last'.event.by = "script" =>
              /\ last'.outcome = "skipped"
              /\ blobs' = blobs
              /\ events' = Remove(events, CHOOSE i \in 1..Len(events) :
                                              events[i] = last'.event)
        /\ last'.outcome = "uploaded" =>
              /\ last'.event.by = "user"
              /\ Cardinality(blobs' \ blobs) <= 1
              /\ Len(events') = Len(events)
              /\ events'[Len(events')].by = "script"
              /\ events'[Len(events')].name = last'.uploaded[2]

C16_NoNested ==
    /\ \A b \in blobs :
          ~HasPrefix(SubSeq(LastComponent(b[2]), Len(NEW_FILE_PREFIX) + 1,
                            Len(LastComponent(b[2]))))
    /\ \A i \in 1..Len(events) :
          events[i].by = "script" => HasPrefix(LastComponent(events[i].name))
    /\ Len(events) <= uploads

C16_NoRetrigger == [][C16_Step]_vars /\ []C16_NoNested /\ <>[](events = <<>>)

C16_Witness ==
    /\ events = <<>>
    /\ uploads = 1
    /\ last.outcome = "skipped"
    /\ last.event = [bucket |-> "photos", name |-> NEW_FILE_PREFIX \o name_b,
                     by |-> "script"]
    /\ blobs = {<<"photos", name_b>>, <<"photos", NEW_FILE_PREFIX \o name_b>>}

====
